---------------------------- MODULE Spec2Model ----------------------------
(***************************************************************************)
(* oneBadApple.c: k processes in a ring of unidirectional pipes pass one   *)
(* "apple" record.  Node 0 (the parent) injects messages read from the     *)
(* console, the node named by dest delivers and clears them.  SIGINT in    *)
(* the parent (or 'q' at the prompt) broadcasts SIGUSR1 and reaps.         *)
(*                                                                         *)
(* Processes are identified with their node ids: the parent is 0 and the   *)
(* child forked in iteration i of main's loop is i (child_pids[i-1]).      *)
(* An endpoint is <<edge, "r">> or <<edge, "w">>: pipes[edge][0] / [1].    *)
(***************************************************************************)
EXTENDS Integers, Sequences, FiniteSets, TLC

\* ------------------------------------------------------------ constants
MAX_K == 64
DEST_EMPTY == -1
DEST_BUF == 64

\* sizeof(a.text): 1024 in the source, scaled down so that lines longer
\* than the buffer are among the console inputs that are explored.
MAX_TEXT == 3

\* ------------------------------------------------------------ bounds
\* Largest ring size explored with full interleaving of the processes.
MaxRing == 3
\* Number of messages the console supplies in one run.
MaxInj == 2
\* Largest ring size explored for a start-up that fork() cuts short.
MaxSpawn == 5

\* ------------------------------------------------------------ strings
NL == "\n"

Min(x, y) == IF x < y THEN x ELSE y

Rep(c, n) == [x \in 1..n |-> c]

\* fgets(buf, n, stdin) on the pending console characters `in`: at most
\* n-1 characters, stopping after the first newline.
FirstNL(in) == IF \E x \in 1..Len(in) : in[x] = NL
               THEN CHOOSE x \in 1..Len(in) :
                        in[x] = NL /\ \A y \in 1..(x-1) : in[y] # NL
               ELSE Len(in)

Fgets(in, n) ==
    LET m == Min(n - 1, FirstNL(in))
    IN  [line |-> SubSeq(in, 1, m), rest |-> SubSeq(in, m + 1, Len(in))]

chomp(s) == IF Len(s) > 0 /\ s[Len(s)] = NL THEN SubSeq(s, 1, Len(s) - 1) ELSE s

\* variant: the copy bound is one character short
CopyText_short(s) == SubSeq(s, 1, Min(Len(s), MAX_TEXT - 2))

\* strncpy(a.text, text_buf, sizeof(a.text)-1); a.text[sizeof(a.text)-1] = 0
CopyText(s) == SubSeq(s, 1, Min(Len(s), MAX_TEXT - 1))

IsSpace(c) == c \in {" ", "\t", NL}
Digits == {"0", "1", "2", "3", "4", "5", "6", "7", "8", "9"}
DigitVal(c) == CASE c = "0" -> 0 [] c = "1" -> 1 [] c = "2" -> 2 [] c = "3" -> 3
                 [] c = "4" -> 4 [] c = "5" -> 5 [] c = "6" -> 6 [] c = "7" -> 7
                 [] c = "8" -> 8 [] c = "9" -> 9

RECURSIVE SkipSpace(_, _)
SkipSpace(s, x) == IF x <= Len(s) /\ IsSpace(s[x]) THEN SkipSpace(s, x + 1) ELSE x

RECURSIVE ScanDigits(_, _, _)
\* <<value, index of the first character that is not a digit>>
ScanDigits(s, x, acc) ==
    IF x <= Len(s) /\ s[x] \in Digits
    THEN ScanDigits(s, x + 1, acc * 10 + DigitVal(s[x]))
    ELSE <<acc, x>>

\* strtol(s, &end, 10): end is the number of characters consumed, 0 when
\* no digits were converted (end == s).  The console lines explored are
\* short, so the value stays far inside a long.
strtol(s) ==
    LET b    == SkipSpace(s, 1)
        sgn  == b <= Len(s) /\ s[b] \in {"+", "-"}
        neg  == sgn /\ s[b] = "-"
        d    == IF sgn THEN b + 1 ELSE b
        r    == ScanDigits(s, d, 0)
    IN  IF r[2] = d THEN [v |-> 0, end |-> 0]
        ELSE [v |-> IF neg THEN 0 - r[1] ELSE r[1], end |-> r[2] - 1]

\* variant: the upper bound of the range is not checked
parse_destination_noUpper(s, kk) ==
    LET r == strtol(s)
    IN  IF r.end = 0 \/ r.end # Len(s) THEN [ok |-> FALSE, out |-> 0]
        ELSE IF r.v < 0 THEN [ok |-> FALSE, out |-> 0]
        ELSE [ok |-> TRUE, out |-> r.v]

parse_destination(s, kk) ==
    LET r == strtol(s)
    IN  IF r.end = 0 \/ r.end # Len(s) THEN [ok |-> FALSE, out |-> 0]
        ELSE IF r.v < 0 \/ r.v >= kk THEN [ok |-> FALSE, out |-> 0]
        ELSE [ok |-> TRUE, out |-> r.v]

\* ------------------------------------------------------------ console inputs
AllSpace(s) == \A x \in 1..Len(s) : IsSpace(s[x])

\* scanf("%d", &k) on the pending console characters: white space is
\* skipped, then an optional sign and the digits are converted and the
\* conversion stops at the first character that is not a digit.  n is
\* the return value (EOF = -1 when the input ends before anything but
\* white space, 0 when no digit could be converted), v the integer
\* stored in k.
scanf(in) ==
    IF AllSpace(in) THEN [n |-> -1, v |-> 0]
    ELSE LET r == strtol(in)
         IN  IF r.end = 0 THEN [n |-> 0, v |-> 0] ELSE [n |-> 1, v |-> r.v]

DigitChar(n) == CHOOSE c \in Digits : DigitVal(c) = n

\* the lines the operator may answer the ring-size prompt with
KLines == { <<DigitChar(n)>> : n \in 2..MaxRing }
              \cup { <<>>, <<"1">>, <<"6", "5">>, <<"a">>, <<"-", "2">>, <<" ", "2">>,
                     <<"2", ".", "5">>, <<"3", "x">> }

DestLines == { <<"0">>, <<"1">>, <<"2">>, <<"3">>, <<"q">>, <<"Q">>, <<"a">>,
               <<>>, <<" ", "1">>, <<"-", "1">>, <<"1", "a">>, <<"+", "2">> }

TextLines == { <<"h">>,
               Rep("x", MAX_TEXT - 1),
               Rep("x", MAX_TEXT),
               Rep("x", MAX_TEXT - 1) \o <<"1">> }

\* ------------------------------------------------------------ state
VARIABLES
    k,             \* g_k (0 until scanf succeeded)
    pc,            \* position of each process
    i,             \* main's loop index i (pipe and fork loops)
    j,             \* per process: index j of its close loop
    num_children,  \* num_children
    fds,           \* per process: its open pipe endpoints
    chan,          \* per edge: the apple records in the pipe
    a,             \* per process: the apple it holds between read and write
    dest,          \* node_loop's local dest in the parent
    stop,          \* per process: stop_requested
    usr1,          \* per process: sigusr1_handler is installed for SIGUSR1
    sigint,        \* sigint_parent_handler is installed in the parent
    pend,          \* per process: a SIGUSR1 sent and not yet delivered
    hi,            \* sigint_parent_handler's loop index i
    via,           \* how the handler was entered: "none", "sigint", "quit", "seed"
    reaped,        \* children wait() has returned
    stdin,         \* console characters typed and not yet consumed
    eof,           \* the console has reached end-of-input
    hops,          \* pipe writes since the parent last wrote from its prompt
    injected,      \* the message of the current cycle, as typed
    report,        \* the delivery printed in the current cycle
    nInj, nDel, nRet, \* injections, deliveries, post-delivery returns so far
    last           \* what the last answer at the destination prompt made the
                   \* Injector do: "invalid" or "eof" when it sent the apple
                   \* on empty, "none" otherwise

vars == << k, pc, i, j, num_children, fds, chan, a, dest, stop, usr1, sigint, pend, hi,
           via, reaped, stdin, eof, hops, injected, report, nInj, nDel, nRet, last >>

NoApple == [dest |-> -2, origin |-> -2, text |-> <<>>]
NoInj == [dest |-> -2, line |-> <<>>]
NoReport == [node |-> -2, origin |-> -2, text |-> <<>>, hops |-> 0]

Nodes == 0..(k - 1)
Children == 1..(k - 1)

Terminated == {"exit0", "exit1", "killed"}
Alive(p) == pc[p] \notin (Terminated \cup {"none"})

\* variant: the inbound edge is taken from the successor
ReadEdge_successor(p) == (p + 1) % k

\* read_fd and write_fd of node p (lines 274-275, 288-289), as edges
ReadEdge(p) == (p - 1 + k) % k
WriteEdge(p) == p

Readers(e) == {p \in Nodes : <<e, "r">> \in fds[p]}
Writers(e) == {p \in Nodes : <<e, "w">> \in fds[p]}

\* ------------------------------------------------------------ start-up
Init ==
    /\ k = 0
    /\ pc = [p \in {0} |-> "scan"]
    /\ i = 0
    /\ j = [p \in {0} |-> 0]
    /\ num_children = 0
    /\ fds = [p \in {0} |-> {}]
    /\ chan = <<>>
    /\ a = [p \in {0} |-> NoApple]
    /\ dest = 0
    /\ stop = [p \in {0} |-> FALSE]
    /\ usr1 = [p \in {0} |-> FALSE]
    /\ sigint = FALSE
    /\ pend = [p \in {0} |-> FALSE]
    /\ hi = 0
    /\ via = "none"
    /\ reaped = {}
    /\ stdin = <<>>
    /\ eof = FALSE
    /\ hops = 0
    /\ injected = NoInj
    /\ report = NoReport
    /\ nInj = 0 /\ nDel = 0 /\ nRet = 0
    /\ last = "none"

\* the outcome inp of scanf("%d", &k) and the range check; on success the
\* rest of the line is discarded and the per-process state of the k nodes
\* comes into being (children not yet forked: "none").
ScanK(inp) ==
    /\ pc[0] = "scan"
    /\ IF inp.n # 1 \/ inp.v < 2 \/ inp.v > MAX_K
       THEN /\ pc' = [pc EXCEPT ![0] = "exit1"]
            /\ UNCHANGED << k, j, fds, chan, a, stop, usr1, pend, stdin >>
       ELSE /\ k' = inp.v
            /\ stdin' = <<>>
            /\ pc' = [p \in 0..(inp.v - 1) |-> IF p = 0 THEN "pipes" ELSE "none"]
            /\ j' = [p \in 0..(inp.v - 1) |-> 0]
            /\ fds' = [p \in 0..(inp.v - 1) |-> {}]
            /\ chan' = [e \in 0..(inp.v - 1) |-> <<>>]
            /\ a' = [p \in 0..(inp.v - 1) |-> NoApple]
            /\ stop' = [p \in 0..(inp.v - 1) |-> FALSE]
            /\ usr1' = [p \in 0..(inp.v - 1) |-> FALSE]
            /\ pend' = [p \in 0..(inp.v - 1) |-> FALSE]
    /\ UNCHANGED << i, num_children, dest, sigint, hi, via, reaped, eof, hops,
                    injected, report, nInj, nDel, nRet, last >>

\* one iteration of the pipe loop: pipe(pipes[i]) succeeds
MakePipe ==
    /\ pc[0] = "pipes"
    /\ fds' = [fds EXCEPT ![0] = @ \cup {<<i, "r">>, <<i, "w">>}]
    /\ IF i + 1 < k
       THEN i' = i + 1 /\ pc' = pc
       ELSE i' = 1 /\ pc' = [pc EXCEPT ![0] = "fork"]
    /\ UNCHANGED << k, j, num_children, chan, a, dest, stop, usr1, sigint, pend, hi, via, reaped,
                    stdin, eof, hops, injected, report, nInj, nDel, nRet, last >>

\* return 1 from main: the process exits with code 1, its descriptors close
Return1 ==
    /\ pc' = [pc EXCEPT ![0] = "exit1"]
    /\ fds' = [fds EXCEPT ![0] = {}]
    /\ UNCHANGED << k, i, j, num_children, chan, a, dest, stop, usr1, sigint, pend, hi, via,
                    reaped, stdin, eof, hops, injected, report, nInj, nDel, nRet, last >>

\* pipe() fails
PipeFail == pc[0] = "pipes" /\ Return1

\* fork() succeeds: the child is node i and inherits every descriptor
Fork ==
    /\ pc[0] = "fork"
    /\ fds' = [fds EXCEPT ![i] = fds[0]]
    /\ num_children' = num_children + 1
    /\ IF i + 1 < k
       THEN i' = i + 1 /\ pc' = [pc EXCEPT ![i] = "wire"]
       ELSE i' = i + 1 /\ pc' = [pc EXCEPT ![i] = "wire", ![0] = "close"]
    /\ UNCHANGED << k, j, chan, a, dest, stop, usr1, sigint, pend, hi, via, reaped, stdin, eof,
                    hops, injected, report, nInj, nDel, nRet, last >>

\* fork() fails
ForkFail == pc[0] = "fork" /\ Return1

\* variant: the second test repeats the first, so the child keeps the write
\* end of its inbound pipe and closes the write end of its own
ChildCloses_sameTest(p, jj) ==
    IF jj = (p - 1 + k) % k THEN {} ELSE {<<jj, "r">>, <<jj, "w">>}

\* variant: the child closes the unused read ends only
ChildCloses_readOnly(p, jj) == IF jj = (p - 1 + k) % k THEN {} ELSE {<<jj, "r">>}

\* what one iteration j of the child's close loop closes (lines 262-273)
ChildCloses(p, jj) ==
    (IF jj = (p - 1 + k) % k THEN {} ELSE {<<jj, "r">>})
        \cup (IF jj = p THEN {} ELSE {<<jj, "w">>})

ChildClose(p) ==
    /\ pc[p] = "wire"
    /\ fds' = [fds EXCEPT ![p] = @ \ ChildCloses(p, j[p])]
    /\ j' = [j EXCEPT ![p] = @ + 1]
    /\ pc' = IF j[p] + 1 < k THEN pc ELSE [pc EXCEPT ![p] = "enter"]
    /\ UNCHANGED << k, i, num_children, chan, a, dest, stop, usr1, sigint, pend, hi, via, reaped,
                    stdin, eof, hops, injected, report, nInj, nDel, nRet, last >>

\* variant: the parent closes the unused write ends only
ParentCloses_writeOnly(jj) == IF jj # 0 THEN {<<jj, "w">>} ELSE {}

\* what one iteration j of the parent's close loop closes (lines 292-295)
ParentCloses(jj) ==
    (IF jj # k - 1 THEN {<<jj, "r">>} ELSE {})
        \cup (IF jj # 0 THEN {<<jj, "w">>} ELSE {})

ParentClose ==
    /\ pc[0] = "close"
    /\ fds' = [fds EXCEPT ![0] = @ \ ParentCloses(j[0])]
    /\ j' = [j EXCEPT ![0] = @ + 1]
    /\ pc' = IF j[0] + 1 < k THEN pc ELSE [pc EXCEPT ![0] = "install"]
    /\ UNCHANGED << k, i, num_children, chan, a, dest, stop, usr1, sigint, pend, hi, via, reaped,
                    stdin, eof, hops, injected, report, nInj, nDel, nRet, last >>

\* ------------------------------------------------------------ node_loop
setupVars == << k, i, j, num_children >>
sigVars == << stop, usr1, sigint, pend, hi, via, reaped >>
consoleVars == << stdin, eof >>
ghostVars == << hops, injected, report, nInj, nDel, nRet, last >>

\* the child enters node_loop: signal(SIGUSR1, sigusr1_handler)
EnterLoop(p) ==
    /\ pc[p] = "enter"
    /\ usr1' = [usr1 EXCEPT ![p] = TRUE]
    /\ pc' = [pc EXCEPT ![p] = "top"]
    /\ UNCHANGED << setupVars, fds, chan, a, dest, stop, sigint, pend, hi, via,
                    reaped, consoleVars, ghostVars >>

\* the parent installs its SIGINT and SIGUSR1 handlers
Install ==
    /\ pc[0] = "install"
    /\ sigint' = TRUE
    /\ usr1' = [usr1 EXCEPT ![0] = TRUE]
    /\ pc' = [pc EXCEPT ![0] = "seed"]
    /\ UNCHANGED << setupVars, fds, chan, a, dest, stop, pend, hi, via, reaped,
                    consoleVars, ghostVars >>

\* the process ends: every descriptor it holds is closed, a signal still
\* pending for it is gone
Ends(p, how) ==
    /\ pc' = [pc EXCEPT ![p] = how]
    /\ fds' = [fds EXCEPT ![p] = {}]
    /\ a' = [a EXCEPT ![p] = NoApple]
    /\ pend' = [pend EXCEPT ![p] = FALSE]

\* leaving the loop: close(read_fd); close(write_fd); _exit(0)
ExitLoop(p) == Ends(p, "exit0")

\* variant: write_full's retry starts over and the record goes out twice
WriteApple_twice(p, tok) ==
    IF Readers(WriteEdge(p)) # {}
    THEN /\ chan' = [chan EXCEPT ![WriteEdge(p)] = Append(Append(@, tok), tok)]
         /\ pc' = [pc EXCEPT ![p] = "top"]
         /\ a' = [a EXCEPT ![p] = NoApple]
         /\ UNCHANGED << fds, pend >>
    ELSE /\ Ends(p, "killed") \/ ExitLoop(p)
         /\ chan' = chan

\* variant: the result of write_full is not tested
WriteApple_unchecked(p, tok) ==
    /\ pc' = [pc EXCEPT ![p] = "top"]
    /\ a' = [a EXCEPT ![p] = NoApple]
    /\ chan' = IF Readers(WriteEdge(p)) # {}
               THEN [chan EXCEPT ![WriteEdge(p)] = Append(@, tok)] ELSE chan
    /\ UNCHANGED << fds, pend >>

\* write_full(write_fd, &tok, sizeof tok) and back to the top of the loop.
\* A pipe nobody can read raises SIGPIPE, which ends the process, unless
\* the process was started with SIGPIPE ignored: then write() fails with
\* EPIPE, write_full returns -1 and node_loop breaks out of its loop.
WriteApple(p, tok) ==
    IF Readers(WriteEdge(p)) # {}
    THEN /\ chan' = [chan EXCEPT ![WriteEdge(p)] = Append(@, tok)]
         /\ pc' = [pc EXCEPT ![p] = "top"]
         /\ a' = [a EXCEPT ![p] = NoApple]
         /\ UNCHANGED << fds, pend >>
    ELSE /\ Ends(p, "killed") \/ ExitLoop(p)
         /\ chan' = chan

\* the seed: one empty apple on the parent's outbound edge, then node_loop
SeedApple == [dest |-> DEST_EMPTY, origin |-> 0, text |-> <<>>]

\* sigint_parent_handler is entered (SIGINT delivered, or raise(SIGINT))
EnterHandler(how) ==
    /\ pc' = [pc EXCEPT ![0] = "h_kill"]
    /\ hi' = 0
    /\ via' = how
    /\ a' = [a EXCEPT ![0] = NoApple]
    /\ dest' = 0

\* variant: the seed is written twice
Seed_double ==
    /\ pc[0] = "seed"
    /\ chan' = [chan EXCEPT ![0] = <<SeedApple, SeedApple>>]
    /\ pc' = [pc EXCEPT ![0] = "top"]
    /\ hops' = 1
    /\ UNCHANGED << setupVars, fds, a, dest, sigVars, consoleVars,
                    injected, report, nInj, nDel, nRet, last >>

\* a seed write that fails raises SIGINT instead of leaving the loop
Seed ==
    /\ pc[0] = "seed"
    /\ IF Readers(WriteEdge(0)) # {}
       THEN /\ WriteApple(0, SeedApple)
            /\ hops' = 1
            /\ UNCHANGED << dest, hi, via >>
       ELSE /\ \/ Ends(0, "killed") /\ UNCHANGED << dest, hi, via >>
               \/ EnterHandler("seed") /\ UNCHANGED << fds, pend >>
            /\ UNCHANGED << chan, hops >>
    /\ UNCHANGED << setupVars, stop, usr1, sigint, reaped,
                    consoleVars, injected, report, nInj, nDel, nRet, last >>

\* while (!stop_requested): the flag check at the top of the loop
LoopTop(p) ==
    /\ pc[p] = "top"
    /\ IF stop[p]
       THEN ExitLoop(p)
       ELSE pc' = [pc EXCEPT ![p] = "read"] /\ UNCHANGED << fds, a, pend >>
    /\ UNCHANGED << setupVars, chan, dest, stop, usr1, sigint, hi, via, reaped,
                    consoleVars, ghostVars >>

\* read_full(read_fd, &a, sizeof a) returns: with the record at the head
\* of the pipe, or with -1 at end of stream (no writer left), which breaks
\* out of the loop.  Otherwise the read stays blocked.
ReadApple(p) ==
    /\ pc[p] = "read"
    /\ IF chan[ReadEdge(p)] # <<>>
       THEN /\ a' = [a EXCEPT ![p] = Head(chan[ReadEdge(p)])]
            /\ chan' = [chan EXCEPT ![ReadEdge(p)] = Tail(@)]
            /\ pc' = [pc EXCEPT ![p] = "hold"]
            /\ UNCHANGED << fds, pend >>
       ELSE /\ Writers(ReadEdge(p)) = {}
            /\ ExitLoop(p)
            /\ chan' = chan
    /\ UNCHANGED << setupVars, dest, stop, usr1, sigint, hi, via, reaped,
                    consoleVars, ghostVars >>

\* variant: <= in place of ==
IsForMe_atMost(tok, p) == tok.dest <= p

\* variant: the test also succeeds on a.dest == 0
IsForMe_orZero(tok, p) == tok.dest = p \/ tok.dest = 0

\* variant: every addressed apple is taken as addressed to this node
IsForMe_always(tok, p) == tok.dest # DEST_EMPTY

\* if (a.dest == my_id): the apple is addressed to this node
IsForMe(tok, p) == tok.dest = p

\* variant: a.origin is not set to my_id
Cleared_keepOrigin(p) == [dest |-> DEST_EMPTY, origin |-> 0, text |-> <<>>]

\* variant: a.dest is not reset to DEST_EMPTY
Cleared_keepDest(p) == [dest |-> p, origin |-> p, text |-> <<>>]

\* the apple a node sends on after delivering: header cleared
Cleared(p) == [dest |-> DEST_EMPTY, origin |-> p, text |-> <<>>]

\* the dispatch on (a.dest, my_id) of lines 142-213, up to the write or,
\* for node 0 with an empty apple, up to the destination prompt
Dispatch(p) ==
    /\ pc[p] = "hold"
    /\ IF a[p].dest = DEST_EMPTY
       THEN IF p = 0
            THEN /\ pc' = [pc EXCEPT ![0] = "dest"]
                 /\ nRet' = IF report # NoReport THEN nRet + 1 ELSE nRet
                 /\ injected' = NoInj
                 /\ report' = NoReport
                 /\ UNCHANGED << fds, chan, a, pend, hops, nDel >>
            ELSE /\ WriteApple(p, a[p])
                 /\ hops' = hops + 1
                 /\ UNCHANGED << injected, report, nDel, nRet >>
       ELSE IF IsForMe(a[p], p)
            THEN /\ report' = [node |-> p, origin |-> a[p].origin,
                               text |-> a[p].text, hops |-> hops]
                 /\ nDel' = nDel + 1
                 /\ WriteApple(p, Cleared(p))
                 /\ hops' = hops + 1
                 /\ UNCHANGED << injected, nRet >>
            ELSE /\ WriteApple(p, a[p])
                 /\ hops' = hops + 1
                 /\ UNCHANGED << injected, report, nDel, nRet >>
    /\ UNCHANGED << setupVars, dest, stop, usr1, sigint, hi, via, reaped,
                    consoleVars, nInj, last >>

\* ------------------------------------------------------------ console
AtPrompt == pc[0] \in {"dest", "text"}

\* the parent is in a call that reads the console
AtConsole == AtPrompt \/ pc[0] = "scan"

\* The operator answers a prompt with a line (the terminal hands it to
\* stdin with its newline), or ends the input.
TypeLine(l) ==
    /\ AtConsole
    /\ stdin = <<>>
    /\ ~eof
    /\ CASE pc[0] = "scan" -> l \in KLines
         [] pc[0] = "dest" -> l \in DestLines
         [] pc[0] = "text" -> l \in TextLines /\ nInj < MaxInj
    /\ stdin' = l \o <<NL>>
    /\ UNCHANGED << setupVars, pc, fds, chan, a, dest, sigVars, via, eof, ghostVars >>

TypeEOF ==
    /\ AtConsole
    /\ stdin = <<>>
    /\ ~eof
    /\ eof' = TRUE
    /\ UNCHANGED << setupVars, pc, fds, chan, a, dest, sigVars, via, stdin, ghostVars >>

\* fgets returns once a line (or what is left of one) is pending, or with
\* NULL at end-of-input
FgetsReady == stdin # <<>> \/ eof

\* scanf at the ring-size prompt: a line of white space only is skipped
\* and scanf goes on waiting, anything else (or end-of-input) decides
ReadK ==
    /\ pc[0] = "scan"
    /\ FgetsReady
    /\ IF AllSpace(stdin) /\ ~eof
       THEN /\ stdin' = <<>>
            /\ UNCHANGED << setupVars, pc, fds, chan, a, dest, sigVars, eof, ghostVars >>
       ELSE ScanK(scanf(stdin))

\* variant: only the lower-case directive is recognised
IsQuit_lowerOnly(s) == s = <<"q">>

IsQuit(s) == s = <<"q">> \/ s = <<"Q">>

\* fgets(dest_buf) at the destination prompt and what follows it up to
\* the next blocking call (lines 153-175)
FgetsDest ==
    /\ pc[0] = "dest"
    /\ FgetsReady
    /\ LET r == Fgets(stdin, DEST_BUF)
           s == chomp(r.line)
           pd == parse_destination(s, k)
       IN  /\ stdin' = r.rest
           /\ IF stdin = <<>>
              THEN /\ WriteApple(0, [a[0] EXCEPT !.dest = DEST_EMPTY])
                   /\ hops' = 1
                   /\ last' = "eof"
                   /\ UNCHANGED << dest, hi, via >>
              ELSE IF IsQuit(s)
              THEN /\ EnterHandler("quit")
                   /\ last' = "none"
                   /\ UNCHANGED << fds, chan, pend, hops >>
              ELSE IF ~pd.ok
              THEN /\ WriteApple(0, a[0])
                   /\ hops' = 1
                   /\ last' = "invalid"
                   /\ UNCHANGED << dest, hi, via >>
              ELSE /\ dest' = pd.out
                   /\ pc' = [pc EXCEPT ![0] = "text"]
                   /\ last' = "none"
                   /\ UNCHANGED << fds, chan, a, pend, hops, hi, via >>
    /\ UNCHANGED << setupVars, stop, usr1, sigint, reaped, eof,
                    injected, report, nInj, nDel, nRet >>

\* the line typed at the message prompt, without its newline
Typed(in) == IF Len(in) > 0 /\ in[Len(in)] = NL THEN SubSeq(in, 1, Len(in) - 1) ELSE in

\* variant: text_buf is left as it is when fgets returns NULL
ReadText_unset(in) == IF in = <<>> THEN <<"?">> ELSE chomp(Fgets(in, MAX_TEXT).line)

\* text_buf after lines 176-179: the line fgets read, without its newline,
\* or the empty string when fgets returns NULL at end-of-input
ReadText(in) == IF in = <<>> THEN <<>> ELSE chomp(Fgets(in, MAX_TEXT).line)

\* fgets(text_buf) at the message prompt, the injection and its write
\* (lines 176-188)
FgetsText ==
    /\ pc[0] = "text"
    /\ FgetsReady
    /\ nInj < MaxInj
    /\ LET r == Fgets(stdin, MAX_TEXT)
           text_buf == ReadText(stdin)
           tok == [dest |-> dest, origin |-> 0, text |-> CopyText(text_buf)]
       IN  /\ stdin' = r.rest
           /\ injected' = [dest |-> dest, line |-> Typed(stdin)]
           /\ WriteApple(0, tok)
    /\ hops' = 1
    /\ nInj' = nInj + 1
    /\ dest' = 0
    /\ UNCHANGED << setupVars, stop, usr1, sigint, hi, reaped, via, eof,
                    report, nDel, nRet, last >>

\* ------------------------------------------------------------ shutdown
InHandler == pc[0] \in {"h_kill", "h_close", "h_wait"}

\* SIGINT arrives at the parent from outside: the handler runs if it is
\* installed, otherwise the default action ends the process
Interrupt ==
    /\ Alive(0)
    /\ ~InHandler
    /\ IF sigint
       THEN EnterHandler("sigint") /\ UNCHANGED << fds, pend >>
       ELSE Ends(0, "killed") /\ UNCHANGED << hi, via, dest >>
    /\ UNCHANGED << setupVars, chan, stop, usr1, sigint, reaped,
                    consoleVars, ghostVars >>

\* kill(child_pids[i], SIGUSR1): one iteration of the handler's loop
HKill ==
    /\ pc[0] = "h_kill"
    /\ LET child == hi + 1
       IN  pend' = [pend EXCEPT ![child] = @ \/ Alive(child)]
    /\ hi' = hi + 1
    /\ pc' = IF hi + 1 < num_children THEN pc ELSE [pc EXCEPT ![0] = "h_close"]
    /\ UNCHANGED << setupVars, fds, chan, a, dest, stop, usr1, sigint, via, reaped,
                    consoleVars, ghostVars >>

\* variant: the handler goes on to wait without closing its endpoints
HClose_keepOpen ==
    /\ pc[0] = "h_close"
    /\ pc' = [pc EXCEPT ![0] = "h_wait"]
    /\ UNCHANGED << setupVars, fds, chan, a, dest, sigVars, consoleVars, ghostVars >>

\* close(read_fd); close(write_fd) in the handler
HClose ==
    /\ pc[0] = "h_close"
    /\ fds' = [fds EXCEPT ![0] = @ \ {<<ReadEdge(0), "r">>, <<WriteEdge(0), "w">>}]
    /\ pc' = [pc EXCEPT ![0] = "h_wait"]
    /\ UNCHANGED << setupVars, chan, a, dest, sigVars, consoleVars, ghostVars >>

Unreaped == (1..num_children) \ reaped

\* wait(NULL) returns the pid of a terminated child
Reap(c) ==
    /\ pc[0] = "h_wait"
    /\ c \in Unreaped
    /\ pc[c] \in Terminated
    /\ reaped' = reaped \cup {c}
    /\ UNCHANGED << setupVars, pc, fds, chan, a, dest, stop, usr1, sigint,
                    pend, hi, via, consoleVars, ghostVars >>

\* variant: the handler exits without waiting for its children
HExit_noWait ==
    /\ pc[0] = "h_wait"
    /\ Ends(0, "exit0")
    /\ UNCHANGED << setupVars, chan, dest, stop, usr1, sigint, hi, via, reaped,
                    consoleVars, ghostVars >>

\* wait(NULL) returns -1 (no child left): _exit(0)
HExit ==
    /\ pc[0] = "h_wait"
    /\ Unreaped = {}
    /\ Ends(0, "exit0")
    /\ UNCHANGED << setupVars, chan, dest, stop, usr1, sigint, hi, via, reaped,
                    consoleVars, ghostVars >>

\* a pending SIGUSR1 is delivered to p.  Without a handler the default
\* action ends the process.  With the handler stop_requested is set; a
\* read() the signal interrupts fails with EINTR and read_full gives up
\* (intr), a signal that lands before the read() call, or a read() that
\* is restarted, leaves the process blocked in the read.
Deliver(p, intr) ==
    /\ pend[p]
    /\ Alive(p)
    /\ IF ~usr1[p]
       THEN Ends(p, "killed") /\ stop' = stop
       ELSE /\ stop' = [stop EXCEPT ![p] = TRUE]
            /\ IF intr
               THEN ExitLoop(p)
               ELSE /\ pend' = [pend EXCEPT ![p] = FALSE]
                    /\ UNCHANGED << pc, fds, a >>
    /\ UNCHANGED << setupVars, chan, dest, usr1, sigint, hi, via, reaped,
                    consoleVars, ghostVars >>

Interrupts(p) == IF usr1[p] /\ pc[p] = "read" THEN BOOLEAN ELSE {FALSE}

Next ==
    \/ ReadK
    \/ MakePipe
    \/ PipeFail
    \/ Fork
    \/ ForkFail
    \/ \E p \in Children : ChildClose(p)
    \/ ParentClose
    \/ \E p \in Children : EnterLoop(p)
    \/ Install
    \/ Seed
    \/ \E p \in Nodes : LoopTop(p)
    \/ \E p \in Nodes : ReadApple(p)
    \/ \E p \in Nodes : Dispatch(p)
    \/ \E l \in KLines \cup DestLines \cup TextLines : TypeLine(l)
    \/ TypeEOF
    \/ FgetsDest
    \/ FgetsText
    \/ Interrupt
    \/ HKill
    \/ HClose
    \/ \E c \in Children : Reap(c)
    \/ HExit
    \/ \E p \in Children : \E intr \in Interrupts(p) : Deliver(p, intr)

Spec == Init /\ [][Next]_vars

\* ------------------------------------------------------------ fairness
\* Every process is scheduled by the kernel whenever it can run, and a
\* pending signal is delivered.  Nothing obliges the operator to type, an
\* interrupt to arrive, or a pipe() or fork() to fail.
ParentStep ==
    \/ ReadK \/ MakePipe \/ Fork \/ ParentClose \/ Install \/ Seed
    \/ LoopTop(0) \/ ReadApple(0) \/ Dispatch(0)
    \/ FgetsDest \/ FgetsText
    \/ HKill \/ HClose \/ (\E c \in Children : Reap(c)) \/ HExit

ChildStep(p) ==
    /\ p \in Children
    /\ ChildClose(p) \/ EnterLoop(p) \/ LoopTop(p) \/ ReadApple(p) \/ Dispatch(p)

SignalStep(p) ==
    /\ p \in Children
    /\ \E intr \in Interrupts(p) : Deliver(p, intr)

FairSpec ==
    /\ Spec
    /\ WF_vars(ParentStep)
    /\ \A p \in 1..(MaxRing - 1) : WF_vars(ChildStep(p)) /\ WF_vars(SignalStep(p))

\* ------------------------------------------------------------ wiring alone
\* The wiring of main for every ring size up to MAX_K.  Each process closes
\* descriptors of its own table only, so the tables a process ends with do
\* not depend on how the processes interleave: here each child runs its
\* close loop before the parent goes on.
NoneWiring == \A p \in Children : pc[p] # "wire"

NextWire ==
    \/ \E n \in 2..MAX_K : ScanK([n |-> 1, v |-> n])
    \/ MakePipe
    \/ NoneWiring /\ Fork
    \/ \E p \in Children : ChildClose(p)
    \/ NoneWiring /\ ParentClose

WireSpec == Init /\ [][NextWire]_vars

\* ------------------------------------------------------------ start-up alone
\* main up to the end of its fork loop, with fork() failing at any
\* iteration, and the children it has created, for rings of up to MaxSpawn
\* nodes.  No apple exists yet, so the children only wire themselves,
\* enter node_loop and read.
NextSpawn ==
    \/ \E n \in 3..MaxSpawn : ScanK([n |-> 1, v |-> n])
    \/ MakePipe
    \/ Fork
    \/ ForkFail
    \/ \E p \in Children : ChildClose(p)
    \/ \E p \in Children : EnterLoop(p)
    \/ \E p \in Children : LoopTop(p)
    \/ \E p \in Children : ReadApple(p)

SpawnSpec ==
    /\ Init /\ [][NextSpawn]_vars
    /\ \A p \in 1..(MaxSpawn - 1) : WF_vars(ChildStep(p))
\* ------------------------------------------------------------ properties
RECURSIVE SumLen(_)
SumLen(E) == IF E = {} THEN 0
             ELSE LET e == CHOOSE x \in E : TRUE
                  IN  Len(chan[e]) + SumLen(E \ {e})

Holders == {p \in Nodes : a[p] # NoApple}
TokenCount == SumLen(Nodes) + Cardinality(Holders)

\* the seed has been written
Seeded == k > 0 /\ pc[0] \notin {"scan", "pipes", "fork", "close", "install", "seed"}
\* neither a shutdown nor a transport failure has begun
Undisturbed == via = "none" /\ \A p \in Nodes : pc[p] \notin Terminated

\* C1 Token conservation: from the seed write on, and until a shutdown or
\* a transport failure begins, there is exactly one apple in the system:
\* in exactly one pipe, or held by exactly one node between its read and
\* its write.  Before the seed there is none.
C1_TokenConservation ==
    /\ (Seeded /\ Undisturbed) =>
          /\ TokenCount = 1
          /\ Cardinality(Holders) <= 1
          /\ Cardinality({e \in Nodes : chan[e] # <<>>}) + Cardinality(Holders) = 1
    /\ (k > 0 /\ ~Seeded) => TokenCount = 0

\* an addressed apple is held by a worker while the ring is undisturbed
C1_Witness ==
    /\ Seeded /\ Undisturbed /\ k = MaxRing
    /\ \E p \in Children : pc[p] = "hold" /\ a[p].dest = p

\* (dest - origin + k) mod k if nonzero, else k
ExpectedHops(d, o) == IF (d - o + k) % k # 0 THEN (d - o + k) % k ELSE k

\* C2 Traversal count: a delivery happens at the node the operator named,
\* after (dest - origin + k) mod k pipe hops since the injection, or k
\* hops when the destination is the Injector itself.
C2_TraversalCount ==
    report # NoReport =>
        /\ injected # NoInj
        /\ report.node = injected.dest
        /\ report.hops = ExpectedHops(injected.dest, 0)

\* a message the Injector addressed to itself has come back to it
C2_Witness == report # NoReport /\ report.node = 0 /\ report.hops = MaxRing

\* the text as typed, cut to the MAX_TEXT - 1 characters the record holds
Truncated(l) == IF Len(l) > MAX_TEXT - 1 THEN SubSeq(l, 1, MAX_TEXT - 1) ELSE l

InjectedApple == [dest |-> injected.dest, origin |-> 0, text |-> Truncated(injected.line)]

\* C3 Content fidelity: the text delivered is the text typed at the
\* message prompt, cut to MAX_TEXT - 1 characters, the origin reported is
\* the Injector, and an addressed apple, wherever it is between injection
\* and delivery, is the record that was injected.
C3_ContentFidelity ==
    /\ report # NoReport =>
          report.text = Truncated(injected.line) /\ report.origin = 0
    /\ \A p \in Holders : a[p].dest # DEST_EMPTY => a[p] = InjectedApple
    /\ \A e \in Nodes : \A x \in 1..Len(chan[e]) :
          chan[e][x].dest # DEST_EMPTY => chan[e][x] = InjectedApple

\* a line longer than the record holds was delivered cut
C3_Witness ==
    /\ report # NoReport
    /\ Len(injected.line) > MAX_TEXT - 1
    /\ Len(report.text) = MAX_TEXT - 1

\* node p takes the dispatch step with an apple addressed to itself (the
\* step ends at the top of the loop, or with the process if the pipe has
\* lost its reader)
Delivers(p) == pc[p] = "hold" /\ a[p].dest = p /\ pc'[p] \in {"top", "killed", "exit0"}

\* C4 Delivery and clear: a node that receives an apple addressed to itself
\* reports it once and forwards it with dest = -1, origin = its own id and
\* empty text; a message is reported only at the node its dest names, and
\* at most once.
C4_DeliveryAndClear ==
    /\ [](report # NoReport => report.node = injected.dest)
    /\ [](nDel <= nInj /\ nInj <= nDel + 1)
    /\ [][\A p \in Nodes : Delivers(p) =>
            /\ report = NoReport
            /\ report' # NoReport /\ report'.node = p
            /\ nDel' = nDel + 1
            /\ pc'[p] = "top" =>
                 chan'[WriteEdge(p)] =
                    Append(chan[WriteEdge(p)],
                           [dest |-> DEST_EMPTY, origin |-> p, text |-> <<>>])]_vars
    /\ [][nDel' # nDel => \E p \in Nodes : pc[p] = "hold" /\ a[p].dest = p]_vars
    /\ [][\A p \in Nodes : pc[p] = "hold" /\ a[p].dest = p /\ Readers(WriteEdge(p)) # {}
            /\ pc'[p] # "hold" /\ via' = via => pc'[p] = "top"]_vars

\* a worker has delivered and its cleared apple is in its outbound pipe
C4_Witness ==
    \E p \in Children :
        /\ report # NoReport /\ report.node = p
        /\ chan[WriteEdge(p)] = <<[dest |-> DEST_EMPTY, origin |-> p, text |-> <<>>]>>

ShutdownBegun == via # "none" \/ \E p \in 0..(MaxRing - 1) : p \in Nodes /\ pc[p] \in Terminated

\* C5 Injection cycles: each injection is followed by its delivery and then
\* by one return of the empty apple to the Injector, before the Injector
\* prompts again: at every prompt the numbers of injections, deliveries and
\* post-delivery returns are equal.
C5_InjectionCycles ==
    /\ [](nRet <= nDel /\ nDel <= nInj /\ nInj <= nRet + 1)
    /\ [](AtPrompt => nInj = nDel /\ nDel = nRet)
    /\ (injected # NoInj) ~>
          ((pc[0] = "dest" /\ nDel = nInj /\ nRet = nInj) \/ ShutdownBegun)

\* the Injector prompts again after MaxInj complete cycles
C5_Witness == pc[0] = "dest" /\ nInj = MaxInj /\ nDel = MaxInj /\ nRet = MaxInj
\* process p has finished closing the descriptors it does not use
DoneClosing(p) == IF p = 0 THEN pc[0] \notin {"scan", "pipes", "fork", "close"}
                  ELSE pc[p] \notin {"none", "wire"}
AllWired == k > 0 /\ \A p \in Nodes : DoneClosing(p)

\* C6 Ring wiring: once every process has finished its close loop (and
\* until a shutdown begins), edge e is open for writing in node e alone and
\* for reading in node (e+1) mod k alone, and every process holds exactly
\* these two endpoints.
C6_RingWiring ==
    (AllWired /\ Undisturbed) =>
        /\ \A e \in Nodes : Writers(e) = {e} /\ Readers(e) = {(e + 1) % k}
        /\ \A p \in Nodes : fds[p] = {<<(p + k - 1) % k, "r">>, <<p, "w">>}

\* the largest interleaved ring is wired and the apple is on its way
C6_Witness == AllWired /\ Undisturbed /\ k = MaxRing /\ Seeded

HoldsBothEnds(p) == \E x \in fds[p] : x[2] = "r" /\ <<x[1], "w">> \in fds[p]

\* C7 as stated: no process ever holds both endpoints of one edge.
C7_NeverBothEnds == \A p \in Nodes : ~HoldsBothEnds(p)

\* C7 No edge aliasing, for every ring size from 2 to MAX_K: a process that
\* has finished closing its unused descriptors does not hold both
\* endpoints of any edge.
C7_NoAliasingOnceWired == \A p \in Nodes : DoneClosing(p) => ~HoldsBothEnds(p)

\* the ring of MAX_K nodes is wired
C7_Witness == k = MAX_K /\ AllWired

\* the Injector has left with code 0 and no worker is left
Done0 ==
    /\ pc[0] = "exit0"
    /\ \A c \in 1..(MaxRing - 1) : c \in Children => pc[c] \in Terminated

\* some process can take a step, or a signal can be delivered
CanProgress ==
    ENABLED (ParentStep \/ \E p \in Children : ChildStep(p) \/ SignalStep(p))

\* C8 Shutdown completes: once SIGINT has reached the installed handler,
\* every worker terminates and the Injector leaves its reap loop and exits
\* with code 0, whatever each worker was doing; until then some process
\* can always run (the Injector never waits for a worker that is stuck).
C8_ShutdownCompletes ==
    /\ [](via = "sigint" => Done0 \/ CanProgress)
    /\ [](via = "sigint" /\ pc[0] \in Terminated => pc[0] = "exit0")
    /\ (via = "sigint") ~> Done0

\* after an interrupt the Injector has exited with 0; one worker left by
\* its own exit path, another was ended by the signal's default action
C8_Witness ==
    /\ via = "sigint" /\ Done0 /\ k = MaxRing
    /\ \E c \in Children : pc[c] = "exit0"
    /\ \E c \in Children : pc[c] = "killed"

\* C9 Shutdown ordering: the handler signals every spawned worker while it
\* still holds its two endpoints, then closes them, then waits; it exits
\* only when every worker has terminated and been reaped.
C9_ShutdownOrdering ==
    /\ [](pc[0] = "h_kill" =>
            {<<ReadEdge(0), "r">>, <<WriteEdge(0), "w">>} \subseteq fds[0])
    /\ [](pc[0] \in {"h_close", "h_wait"} =>
            hi = num_children /\ num_children = k - 1)
    /\ [](pc[0] = "h_wait" => fds[0] = {})
    /\ [](via # "none" /\ pc[0] \in Terminated =>
            /\ pc[0] = "exit0"
            /\ \A c \in Children : pc[c] \in Terminated /\ c \in reaped)
    /\ [](via # "none" /\ pc[0] # "h_kill" =>
            \A c \in Children : Alive(c) => pend[c] \/ stop[c])
    /\ [][pc[0] = "h_kill" /\ pc'[0] # "h_kill" => pc'[0] = "h_close"]_vars
    /\ [][pc[0] = "h_close" /\ pc'[0] # "h_close" => pc'[0] = "h_wait"]_vars
    /\ [][pc[0] = "h_kill" /\ hi' # hi =>
            hi' = hi + 1 /\ (Alive(hi + 1) => pend'[hi + 1])]_vars

\* the Injector has exited after reaping every worker of the largest ring
C9_Witness ==
    /\ via # "none" /\ pc[0] = "exit0" /\ k = MaxRing
    /\ reaped = Children

QuitPending == pc[0] = "dest" /\ (stdin = <<"q", NL>> \/ stdin = <<"Q", NL>>)

\* C10 Quit directive: with the empty apple held at the destination prompt,
\* a line "q" or "Q" makes the Injector enter the interrupt handler without
\* writing the apple; no apple is forwarded afterwards, every worker
\* terminates and the Injector exits with code 0.
C10_QuitDirective ==
    /\ [][QuitPending /\ pc'[0] # "dest" =>
            /\ a[0].dest = DEST_EMPTY
            /\ pc'[0] = "h_kill" /\ hi' = 0
            /\ chan' = chan]_vars
    /\ [](via = "quit" => TokenCount = 0)
    /\ [](via = "quit" => Done0 \/ CanProgress)
    /\ (via = "quit") ~> Done0

\* after "q" the Injector has exited with 0 and every worker has terminated
C10_Witness == via = "quit" /\ Done0 /\ k = MaxRing /\ reaped = Children

\* the line pending at a prompt, without its newline
DestAnswer == IF stdin # <<>> /\ stdin[Len(stdin)] = NL
              THEN SubSeq(stdin, 1, Len(stdin) - 1) ELSE stdin

\* s is a decimal numeral: optional white space, an optional sign, digits
Numeric(s) ==
    \E b \in 0..Len(s) :
        /\ \A x \in 1..b : IsSpace(s[x])
        /\ LET t == SubSeq(s, b + 1, Len(s))
               u == IF t # <<>> /\ t[1] \in {"+", "-"} THEN Tail(t) ELSE t
           IN  u # <<>> /\ \A x \in 1..Len(u) : u[x] \in Digits

\* s names node n
Names(s, n) ==
    \E b \in 0..Len(s) :
        /\ \A x \in 1..b : IsSpace(s[x])
        /\ LET t == SubSeq(s, b + 1, Len(s))
               u == IF t # <<>> /\ t[1] = "+" THEN Tail(t) ELSE t
           IN  /\ u # <<>>
               /\ \A x \in 1..(Len(u) - 1) : u[x] = "0"
               /\ u[Len(u)] = DigitChar(n)

\* a destination that is not the quit directive and is not numeric or
\* names no node of the ring is pending at the destination prompt
MalformedPending ==
    /\ pc[0] = "dest" /\ stdin # <<>>
    /\ DestAnswer \notin {<<"q">>, <<"Q">>}
    /\ ~Numeric(DestAnswer) \/ \A n \in Nodes : ~Names(DestAnswer, n)

EmptyOnly ==
    /\ \A p \in Holders : a[p].dest = DEST_EMPTY
    /\ \A e \in Nodes : \A x \in 1..Len(chan[e]) : chan[e][x].dest = DEST_EMPTY

\* C11 Invalid destination recovery: a destination that is not numeric or
\* not in [0, k), answered to the Injector holding the empty apple, makes
\* the Injector write the apple on as it is, still empty, without a
\* message prompt and without any process terminating; the apple stays
\* empty on its way round and the Injector prompts again when it is back.
C11_InvalidDestination ==
    /\ [][MalformedPending /\ Undisturbed /\ pc'[0] # "dest" /\ via' = via =>
            /\ a[0].dest = DEST_EMPTY
            /\ chan' = [chan EXCEPT ![0] = <<a[0]>>]
            /\ pc' = [pc EXCEPT ![0] = "top"]
            /\ last' = "invalid"
            /\ injected' = NoInj /\ nInj' = nInj]_vars
    /\ [](last = "invalid" /\ Undisturbed => EmptyOnly /\ TokenCount = 1)
    /\ [](last = "invalid" /\ pc[0] = "text" => FALSE)
    /\ (last = "invalid" /\ pc[0] = "top") ~> (pc[0] = "dest" \/ ShutdownBegun)

\* after an invalid destination the empty apple has gone round the largest
\* ring and the Injector is at its destination prompt again
C11_Witness ==
    /\ last = "invalid" /\ pc[0] = "dest" /\ Undisturbed
    /\ k = MaxRing /\ hops = MaxRing /\ a[0].dest = DEST_EMPTY

\* end-of-input is what the pending fgets will see
EofPending == AtPrompt /\ eof /\ stdin = <<>>

BadRingSize ==
    \/ eof /\ stdin = <<>>
    \/ /\ stdin # <<>>
       /\ ~AllSpace(stdin)
       /\ \/ ~Numeric(DestAnswer)
          \/ strtol(DestAnswer).v < 2
          \/ strtol(DestAnswer).v > MAX_K

\* C13 ConfigError: when the ring size is missing, not an integer or
\* outside [2, MAX_K], the program ends with exit code 1, having created
\* no pipe and forked no child.
C13_ConfigError ==
    [][pc[0] = "scan" /\ BadRingSize /\ pc'[0] \notin {"scan", "killed"} =>
          /\ pc'[0] = "exit1"
          /\ k' = 0 /\ num_children' = 0
          /\ \A p \in DOMAIN fds' : fds'[p] = {}]_vars

\* fork() has failed with at least one worker already created
SpawnFailed == pc[0] = "exit1" /\ num_children >= 1

\* C14 SpawnError teardown: when fork() fails after m >= 1 workers were
\* created, main returns 1, no apple is ever written, and each of the m
\* workers terminates: with the parent gone and the close loops done the
\* first worker reads end-of-stream, and its exit gives end-of-stream to
\* the next.
C14_SpawnTeardown ==
    /\ [][pc[0] = "fork" /\ pc'[0] \in Terminated =>
            pc'[0] = "exit1" /\ fds'[0] = {} /\ num_children' = num_children]_vars
    /\ [](pc[0] = "exit1" => TokenCount = 0 /\ hops = 0)
    /\ [](SpawnFailed => \A c \in Children : (c > num_children) = (pc[c] = "none"))
    /\ SpawnFailed ~>
          (\A c \in 1..(MaxSpawn - 1) : c <= num_children => pc[c] \in Terminated)

\* fork() failed in the largest ring with all workers but one created,
\* and every one of them has left through its exit path
C14_Witness ==
    /\ SpawnFailed /\ k = MaxSpawn /\ num_children = MaxSpawn - 2
    /\ \A c \in 1..num_children : pc[c] = "exit0"

\* C15 Ring order: a node receives the apple from the edge of its
\* predecessor only and an edge receives it from its own node only, so
\* every transfer goes from node i to node (i+1) mod k.  Counting the
\* transfers since node 0 last sent the apple from its prompt (or seeded
\* it), the apple is, after h transfers, on edge (h-1) mod k or in node
\* h mod k: the nodes receive it in the order 1, 2, ..., k-1, 0, 1, ...
\* (a write that fails because the edge has lost its reader is counted,
\* and ends the writer).
C15_RingOrder ==
    /\ [][\A p \in Nodes : a[p] = NoApple /\ a'[p] # NoApple =>
            /\ chan[(p + k - 1) % k] # <<>>
            /\ a'[p] = Head(chan[(p + k - 1) % k])
            /\ chan' = [chan EXCEPT ![(p + k - 1) % k] = Tail(@)]]_vars
    /\ [][\A e \in Nodes : chan'[e] # chan[e] /\ Len(chan'[e]) >= Len(chan[e]) =>
            /\ pc[e] \in {"seed", "hold", "dest", "text"} /\ pc'[e] = "top"
            /\ hops' = IF e = 0 /\ pc[e] # "hold" THEN 1 ELSE hops + 1
            /\ \A x \in Nodes \ {e} : chan'[x] = chan[x]]_vars
    /\ [][hops' # hops =>
            \/ \E e \in Nodes : Len(chan'[e]) = Len(chan[e]) + 1
            \/ \E e \in Nodes : Readers(e) = {} /\ pc'[e] \in Terminated]_vars
    /\ [](Seeded /\ Undisturbed =>
            /\ \A e \in Nodes : chan[e] # <<>> => e = (hops - 1) % k
            /\ \A p \in Holders : p = hops % k)

\* the apple is back in node 0 after one circuit of the largest ring and
\* is on its second
C15_Witness ==
    /\ Seeded /\ Undisturbed /\ k = MaxRing
    /\ nInj = 1 /\ nDel = 1 /\ injected # NoInj /\ injected.dest = 0
    /\ hops = 2 * MaxRing - 1 /\ pc[MaxRing - 1] = "hold"

\* C16 Worker stop: a worker whose stop_requested flag is set, and which
\* is not in the middle of dispatching an apple, completes no further read
\* of an apple and writes no further apple, wherever in its loop the
\* signal found it.
C16_WorkerStop ==
    [][\A p \in Children : stop[p] /\ a[p] = NoApple =>
          a'[p] = NoApple /\ chan'[WriteEdge(p)] = chan[WriteEdge(p)]]_vars

\* node p is in its read, the inbound pipe is empty and has no writer
ReadClosed(p) ==
    pc[p] = "read" /\ chan[(p + k - 1) % k] = <<>> /\ Writers((p + k - 1) % k) = {}

\* node p is about to write an apple and the outbound pipe has no reader
WriteBroken(p) ==
    /\ Readers(p) = {}
    /\ \/ pc[p] = "hold" /\ ~(p = 0 /\ a[p].dest = DEST_EMPTY)
       \/ p = 0 /\ AtPrompt /\ FgetsReady

\* node p has left: terminated, both endpoints released, no apple in hand
Exited(p) == pc[p] \in Terminated /\ fds[p] = {} /\ a[p] = NoApple

\* C17 TransportError to Exiting: a node whose read meets end-of-stream,
\* or whose write meets a pipe without reader, terminates in that step
\* with both its endpoints released (through the exit path of node_loop
\* or, for a write, through SIGPIPE), and it alone; a node that has
\* terminated takes no apple from its inbound pipe and puts none on its
\* outbound pipe.
C17_TransportError ==
    /\ [][\A p \in Nodes : ReadClosed(p) /\ pc'[p] # pc[p] /\ via' = via =>
            /\ pc'[p] = "exit0" /\ Exited(p)'
            /\ \A q \in Nodes \ {p} : pc'[q] = pc[q] /\ fds'[q] = fds[q]
            /\ chan' = chan]_vars
    /\ [][\A p \in Nodes : WriteBroken(p) /\ pc'[p] # pc[p] /\ via' = via =>
            /\ pc'[p] \in {"exit0", "killed"} /\ Exited(p)'
            /\ \A q \in Nodes \ {p} : pc'[q] = pc[q] /\ fds'[q] = fds[q]
            /\ chan' = chan]_vars
    /\ [](\A p \in Nodes : pc[p] \in Terminated => Exited(p))
    /\ [][\A p \in Nodes : pc[p] \in Terminated =>
            /\ Exited(p)' /\ pc'[p] = pc[p]
            /\ Len(chan'[p]) <= Len(chan[p])
            /\ Len(chan'[(p + k - 1) % k]) >= Len(chan[(p + k - 1) % k])]_vars

\* in the largest ring one worker has left on end-of-stream (its flag is
\* not set) and another was ended by its write to a pipe without reader
C17_Witness ==
    /\ k = MaxRing
    /\ \E c \in Children : pc[c] = "exit0" /\ ~stop[c] /\ ~pend[c]
    /\ \E c \in Children : pc[c] = "killed" /\ usr1[c]

\* the records in the pipes and in the hands of the nodes
Tokens == {a[p] : p \in Holders} \cup UNION {{chan[e][x] : x \in 1..Len(chan[e])} : e \in Nodes}

\* C18 Pass-through and single injector: a worker holding the empty apple,
\* and any node holding an apple addressed to another node, writes the
\* record it read, dest, origin and text unchanged; an addressed record is
\* put on an edge only by node 0 at its message prompt or by a node that
\* read it; so every apple has dest -1 or a node id, and every addressed
\* apple has origin 0.
C18_PassThrough ==
    /\ [][\A p \in Nodes :
            /\ pc[p] = "hold" /\ a[p].dest # p /\ ~(p = 0 /\ a[p].dest = DEST_EMPTY)
            /\ pc'[p] = "top"
            => chan' = [chan EXCEPT ![p] = Append(@, a[p])]]_vars
    /\ [][\A e \in Nodes :
            /\ Len(chan'[e]) > Len(chan[e])
            /\ chan'[e][Len(chan'[e])].dest # DEST_EMPTY
            => \/ e = 0 /\ pc[0] = "text"
               \/ pc[e] = "hold" /\ a[e] = chan'[e][Len(chan'[e])]]_vars
    /\ [](\A t \in Tokens :
            /\ t.dest = DEST_EMPTY \/ t.dest \in Nodes
            /\ t.dest # DEST_EMPTY => t.origin = 0)

\* in the largest ring, after an earlier message was delivered, a worker
\* has passed on the injected apple, which is addressed to another node
C18_Witness ==
    /\ k = MaxRing /\ nDel >= 1
    /\ \E p \in Children :
          /\ chan[p] # <<>> /\ chan[p][1].dest \in Nodes \ {p}
          /\ chan[p][1] = InjectedApple

\* C19 as stated: while the ring is undisturbed a pipe holds at most one
\* record and, with the Injector at a prompt, the Injector holds the empty
\* apple, every pipe is empty and every worker is in its read.
C19_QuiescentInRead ==
    Undisturbed =>
        /\ \A e \in Nodes : Len(chan[e]) <= 1
        /\ AtPrompt =>
              /\ a[0].dest = DEST_EMPTY
              /\ \A e \in Nodes : chan[e] = <<>>
              /\ \A c \in Children : pc[c] = "read"

\* C19 Quiescence while prompting: while the ring is undisturbed a pipe
\* holds at most one record and a write finds its pipe empty; with the
\* Injector at a prompt, the Injector holds the empty apple, every pipe is
\* empty, and every worker holds nothing and is in its read or on its way
\* back to it from its last write (at the flag check of the loop); a
\* message is injected only when no addressed apple exists.
C19_Quiescence ==
    /\ [](Undisturbed =>
            /\ \A e \in Nodes : Len(chan[e]) <= 1
            /\ AtPrompt =>
                  /\ a[0].dest = DEST_EMPTY
                  /\ Holders = {0}
                  /\ \A e \in Nodes : chan[e] = <<>>
                  /\ \A c \in Children : pc[c] \in {"top", "read"} /\ ~stop[c])
    /\ [][\A e \in Nodes : Undisturbed /\ Len(chan'[e]) > Len(chan[e]) =>
            chan[e] = <<>>]_vars
    /\ [][nInj' # nInj => pc[0] = "text" /\ EmptyOnly /\ Holders = {0}]_vars

\* the Injector of the largest ring is at its message prompt for the
\* second message and every worker is in its read
C19_Witness ==
    /\ Undisturbed /\ k = MaxRing /\ pc[0] = "text" /\ nInj = 1
    /\ \A c \in Children : pc[c] = "read"

\* C20 Hops per cycle: while the ring is undisturbed, when the Injector
\* comes back to its destination prompt after injecting a message for node
\* d, the apple has made exactly k pipe transfers since the injection (the
\* injecting write included) if d is not 0, and exactly 2k if d = 0; it
\* never comes back sooner, and on the way the d = 0 message is delivered
\* after k transfers.
C20_HopsPerCycle ==
    /\ [][pc[0] = "hold" /\ pc'[0] = "dest" /\ injected # NoInj /\ Undisturbed =>
            hops = IF injected.dest = 0 THEN 2 * k ELSE k]_vars
    /\ [][nInj' = nInj + 1 /\ Undisturbed' => hops' = 1 /\ injected' # NoInj]_vars
    /\ [](injected # NoInj /\ Undisturbed =>
            /\ hops >= 1
            /\ hops <= (IF injected.dest = 0 THEN 2 * k ELSE k)
            /\ pc[0] \notin {"dest", "text"}
            /\ (injected.dest = 0 /\ report # NoReport) => report.hops = k /\ hops > k)

\* the Injector of the largest ring is back at its prompt after a message
\* to itself: 2k transfers
C20_Witness ==
    /\ Undisturbed /\ k = MaxRing /\ pc[0] = "dest" /\ nRet >= 1
    /\ hops = 2 * MaxRing /\ last = "none"
=============================================================================
